---- MODULE Spec2Model ----
(***************************************************************************)
(* Model of src/trans.c: the cache-aware matrix transposes B = A^T.        *)
(*                                                                         *)
(* A behaviour is the driver's pass over the functions that                *)
(* registerFunctions registers, for one shape (M,N), one content of A and  *)
(* one placement of the two buffers.  One action is one complete run of    *)
(* the innermost loop of a routine (the for-k loop of a tuned routine, the *)
(* for-j loop of trans): all its loads and stores in program order,        *)
(* followed by the bookkeeping of the enclosing loops up to the next       *)
(* innermost loop or to the return.                                        *)
(*                                                                         *)
(* Memory is a flat byte address space.  A[r][c] is the int at             *)
(* baseA + 4*(r*M + c), B[r][c] the int at baseB + 4*(r*N + c)             *)
(* (int A[N][M], int B[M][N]).  A load whose address leaves both buffers,  *)
(* a load of a word of B that was never written and a use of a scalar that *)
(* was never assigned are undefined: they yield an arbitrary word.  A      *)
(* store whose address leaves both buffers lands in foreign memory.        *)
(*                                                                         *)
(* The cache is the one named in the header comment of trans.c: 1 KB,      *)
(* direct mapped, 32-byte blocks; every load and store is looked up.       *)
(***************************************************************************)
EXTENDS Integers, Sequences, FiniteSets, TLC

\* ------------------------------------------------------------------ bounds
\* fallback shapes are (8*m, 8*n) for m, n in 1..MaxBlocks
MaxBlocks == 3
\* B is placed 0..MaxShift cache lines past a 1024-byte boundary
MaxShift == 1

\* ------------------------------------------------------- program constants
IntBytes == 4
CacheBytes == 1024
LineBytes == 32
NumSets == CacheBytes \div LineBytes
\* distance of the two buffers when the caller does not place them
\* back to back: a multiple of the cache size
FarApart == 256 * CacheBytes

\* c0..c7 of the tuned routines are scalars 0..7, tmp of trans is TMP
TMP == 8
Scalars == 0..TMP
\* the scalars transpose64x64 holds across a stripe boundary: c4..c7
Carried == 4..7

\* ------------------------------------------------------------------ inputs
Recognized == {<<32, 32>>, <<32, 64>>, <<64, 64>>}
Mult8 == {<<8 * m, 8 * n>> : m \in 1..MaxBlocks, n \in 1..MaxBlocks}
Tiny == {<<2, 2>>}
\* a shape is <<M, N>>
Shapes == Recognized \cup Mult8 \cup Tiny

Fills == {"rowmajor", "shift8", "diff"}

\* the value of A[r][col] on entry
Content(f, m, r, col) ==
    CASE f = "rowmajor" -> r * m + col + 1
      [] f = "shift8" -> r * 256 + col
      [] f = "diff" -> r - col

\* the pattern that marks a word of B not written yet; no content and no
\* arbitrary word of the model equals it
NoWord == -(2 ^ 30)

\* the words an undefined load can yield
Garbage == {-7, 3}
G0 == CHOOSE g \in Garbage : TRUE

\* A holds the words of the buffer A that were overwritten since entry (the
\* others have their entry value), B the words of the buffer B (NoWord
\* where nothing was written yet), both by word offset from the base.
VARIABLES M, N, fill, baseA, baseB, fn, score, pc, i, j, A, B, c, cdef,
          cache, misses, rewr, stray, carry, lost, undef, acc, last

vars == <<M, N, fill, baseA, baseB, fn, score, pc, i, j, A, B, c, cdef,
          cache, misses, rewr, stray, carry, lost, undef, acc, last>>

\* --------------------------------------------------------------- addressing
AddrA(r, col) == baseA + IntBytes * (r * M + col)
AddrB(r, col) == baseB + IntBytes * (r * N + col)

InA(a) == a >= baseA /\ a < baseA + IntBytes * N * M
InB(a) == a >= baseB /\ a < baseB + IntBytes * M * N
WordA(a) == (a - baseA) \div IntBytes
WordB(a) == (a - baseB) \div IntBytes

Ld(reg, r, col) == [op |-> "ld", reg |-> reg, row |-> r, col |-> col]
St(reg, r, col) == [op |-> "st", reg |-> reg, row |-> r, col |-> col]

Addr(o) == IF o.op = "ld" THEN AddrA(o.row, o.col) ELSE AddrB(o.row, o.col)

\* f with x mapped to v
Put(f, x, v) == (x :> v) @@ f

\* -------------------------------------------------------------------- cache
SetOf(a) == (a \div LineBytes) % NumSets
LineOf(a) == a \div LineBytes

Touch(a, s) ==
    IF s.cache[SetOf(a)] = LineOf(a)
    THEN s
    ELSE [s EXCEPT !.cache[SetOf(a)] = LineOf(a), !.misses = @ + 1]

\* ------------------------------------------------------ one load, one store
\* the word at address a
Peek(a, gv, s) ==
    IF InA(a)
    THEN IF WordA(a) \in DOMAIN s.A
         THEN s.A[WordA(a)]
         ELSE Content(fill, M, WordA(a) \div M, WordA(a) % M)
    ELSE IF InB(a) /\ s.B[WordB(a)] # NoWord
    THEN s.B[WordB(a)]
    ELSE gv

\* reg = A[row][col]; for c4..c7 also: which cell it now holds, the
\* captures since it was last stored, the stores since it was captured
Load(o, gv, s) ==
    LET a == AddrA(o.row, o.col)
        t == [Touch(a, s) EXCEPT !.c[o.reg] = Peek(a, gv, s),
                                 !.cdef = @ \cup {o.reg}]
    IN IF o.reg \in Carried
       THEN [t EXCEPT
               !.lost = @ \/ (s.carry[o.reg].caps > 0
                                /\ s.carry[o.reg].uses # 1),
               !.carry[o.reg] =
                   [row |-> o.row, col |-> o.col,
                    caps |-> IF s.carry[o.reg].uses > 0
                             THEN 1 ELSE s.carry[o.reg].caps + 1,
                    uses |-> 0]]
       ELSE t

\* B[row][col] = reg
Store(o, gv, s) ==
    LET a == AddrB(o.row, o.col)
        v == IF o.reg \in s.cdef THEN s.c[o.reg] ELSE gv
        t == Touch(a, s)
        u == IF InB(a)
             THEN [t EXCEPT !.B[WordB(a)] = v,
                            !.rewr = IF s.B[WordB(a)] # NoWord
                                     THEN @ \cup {WordB(a)} ELSE @]
             ELSE IF InA(a)
             THEN [t EXCEPT !.A = Put(@, WordA(a), v)]
             ELSE [t EXCEPT !.stray = TRUE]
    IN IF o.reg \in Carried
       THEN [u EXCEPT !.undef = @ \/ o.reg \notin s.cdef,
                      !.carry[o.reg].uses = @ + 1]
       ELSE u

Exec(o, gv, s) == IF o.op = "ld" THEN Load(o, gv, s) ELSE Store(o, gv, s)

\* ops[lo..hi] in order, from the memory s (the comparison of the miss
\* counters, which never decrease, makes TLC finish the first half before
\* it starts the second)
RECURSIVE Run(_, _, _, _, _)
Run(ops, gv, lo, hi, s) ==
    IF lo > hi THEN s
    ELSE IF lo = hi THEN Exec(ops[lo], gv, s)
    ELSE LET half == Run(ops, gv, lo, (lo + hi) \div 2, s)
         IN IF half.misses >= s.misses
            THEN Run(ops, gv, (lo + hi) \div 2 + 1, hi, half)
            ELSE half

\* no load or store of ops is undefined on the current memory
Defined(ops) ==
    \A n \in 1..Len(ops) :
        IF ops[n].op = "ld"
        THEN InA(Addr(ops[n]))
        ELSE \/ ops[n].reg \in cdef
             \/ \E x \in 1..(n - 1) :
                   ops[x].op = "ld" /\ ops[x].reg = ops[n].reg

\* the words an undefined load of ops can yield (one arbitrary word for
\* the loads of one run of the loop)
Choices(ops) == IF Defined(ops) THEN {G0} ELSE Garbage

Machine == [A |-> A, B |-> B, c |-> c, cdef |-> cdef, cache |-> cache,
            misses |-> misses, rewr |-> rewr, stray |-> stray,
            carry |-> carry, lost |-> lost, undef |-> undef]

\* the loads and stores of a loop, in order, on the current memory (the
\* singleton sets make TLC compute the loop and its result once)
Body(loop) ==
    \E ops \in {loop} :
      \E gv \in Choices(ops) :
        \E s \in {Run(ops, gv, 1, Len(ops), Machine)} :
           /\ A' = s.A
           /\ B' = s.B
           /\ c' = s.c
           /\ cdef' = s.cdef
           /\ cache' = s.cache
           /\ misses' = s.misses
           /\ rewr' = s.rewr
           /\ stray' = s.stray
           /\ carry' = s.carry
           /\ lost' = s.lost
           /\ undef' = s.undef
           /\ acc' = ops

Goto(p, ni, nj) == pc' = p /\ i' = ni /\ j' = nj

\* ------------------------------------------------------------ loop bodies
\* trans: tmp = A[i][j]; B[j][i] = tmp;
opsTrans(bi, bj) == <<Ld(TMP, bi, bj), St(TMP, bj, bi)>>

\* c0..c3 = A[k][j..j+3]
Load4(bj, bk) == [d \in 1..4 |-> Ld(d - 1, bk, bj + d - 1)]
\* B[j..j+3][k] = c0..c3
Store4(bj, bk) == [d \in 1..4 |-> St(d - 1, bj + d - 1, bk)]
\* LoadCarry one column to the right
LoadCarry_off(bj, bk) == [d \in 1..4 |-> Ld(d + 3, bk, bj + d + 4)]

\* c4..c7 = A[k][j+4..j+7]
LoadCarry(bj, bk) == [d \in 1..4 |-> Ld(d + 3, bk, bj + d + 3)]
\* B[j..j+3][k] = c4..c7
StoreCarry(bj, bk) == [d \in 1..4 |-> St(d + 3, bj + d - 1, bk)]

\* ops32x32 with B[j+7][k] = c6
ops32x32_slip(bj, bk) ==
    [d \in 1..16 |-> IF d <= 8 THEN Ld(d - 1, bk, bj + d - 1)
                     ELSE St(IF d = 16 THEN 6 ELSE d - 9, bj + d - 9, bk)]

\* ops32x32 with every store right behind its load
ops32x32_interleaved(bj, bk) ==
    [d \in 1..16 |-> IF d % 2 = 1 THEN Ld(d \div 2, bk, bj + d \div 2)
                     ELSE St(d \div 2 - 1, bj + d \div 2 - 1, bk)]

\* transpose32x32: c0..c7 = A[k][j..j+7]; B[j..j+7][k] = c0..c7
ops32x32(bj, bk) ==
    [d \in 1..16 |-> IF d <= 8 THEN Ld(d - 1, bk, bj + d - 1)
                               ELSE St(d - 9, bj + d - 9, bk)]

\* ops32x64 with every store right behind its load
ops32x64_interleaved(bj, bk) ==
    [d \in 1..8 |-> IF d % 2 = 1 THEN Ld(d \div 2, bk, bj + d \div 2)
                    ELSE St(d \div 2 - 1, bj + d \div 2 - 1, bk)]

\* transpose32x64: both branches of the stripe test have the same body
ops32x64(bj, bk) == Load4(bj, bk) \o Store4(bj, bk)

\* (j/4) % 2 == 0
Even(bj) == (bj \div 4) % 2 = 0

\* ops64x64 without the else of the odd stripe: row i+1 is stored from the
\* carry and then loaded and stored again
ops64x64_redo(bi, bj, bk) ==
    IF Even(bj)
    THEN IF bk = bi + 1
         THEN Load4(bj, bk) \o LoadCarry(bj, bk) \o Store4(bj, bk)
         ELSE Load4(bj, bk) \o Store4(bj, bk)
    ELSE IF bk = bi + 1
         THEN StoreCarry(bj, bk) \o Load4(bj, bk) \o Store4(bj, bk)
         ELSE Load4(bj, bk) \o Store4(bj, bk)

\* ops64x64 with the capture at k = i+1 and at every later k
ops64x64_recapture(bi, bj, bk) ==
    IF Even(bj)
    THEN IF bk >= bi + 1
         THEN Load4(bj, bk) \o LoadCarry(bj, bk) \o Store4(bj, bk)
         ELSE Load4(bj, bk) \o Store4(bj, bk)
    ELSE IF bk = bi + 1
         THEN StoreCarry(bj, bk)
         ELSE Load4(bj, bk) \o Store4(bj, bk)

\* transpose64x64 (and test)
ops64x64(bi, bj, bk) ==
    IF Even(bj)
    THEN IF bk = bi + 1
         THEN Load4(bj, bk) \o LoadCarry(bj, bk) \o Store4(bj, bk)
         ELSE Load4(bj, bk) \o Store4(bj, bk)
    ELSE IF bk = bi + 1
         THEN StoreCarry(bj, bk)
         ELSE Load4(bj, bk) \o Store4(bj, bk)

\* ------------------------------------------------------- innermost loops
\* for (k = i; k < i+8; k++) on an even stripe, for (k=i+7; k>=i; k--) on
\* an odd one
First(bi, bj) == IF Even(bj) THEN bi ELSE bi + 7
KNext(bj, bk) == IF Even(bj) THEN bk + 1 ELSE bk - 1
\* KMore with k <= i+8
KMore_le(bi, bj, bk) == IF Even(bj) THEN bk <= bi + 8 ELSE bk >= bi

KMore(bi, bj, bk) == IF Even(bj) THEN bk < bi + 8 ELSE bk >= bi

\* for (j = 0; j < M; j++) of trans, from j = bj on
RECURSIVE loopTrans(_, _)
loopTrans(bi, bj) ==
    IF bj < M THEN opsTrans(bi, bj) \o loopTrans(bi, bj + 1) ELSE <<>>

\* for (k = i; k < i+8; k++) of transpose32x32, from k = bk on
RECURSIVE loop32x32(_, _, _)
loop32x32(bi, bj, bk) ==
    IF bk < bi + 8
    THEN ops32x32(bj, bk) \o loop32x32(bi, bj, bk + 1)
    ELSE <<>>

RECURSIVE loop32x64(_, _, _)
loop32x64(bi, bj, bk) ==
    IF KMore(bi, bj, bk)
    THEN ops32x64(bj, bk) \o loop32x64(bi, bj, KNext(bj, bk))
    ELSE <<>>

RECURSIVE loop64x64(_, _, _)
loop64x64(bi, bj, bk) ==
    IF KMore(bi, bj, bk)
    THEN ops64x64(bi, bj, bk) \o loop64x64(bi, bj, KNext(bj, bk))
    ELSE <<>>

\* j += 4 and i += 8 of a 4-column stripe routine
StripeAdvance ==
    IF j + 4 < M
    THEN Goto(pc, i, j + 4)
    ELSE IF i + 8 < N
    THEN Goto(pc, i + 8, 0)
    ELSE Goto("done", i + 8, j + 4)

\* --------------------------------------------------------------- actions
Note == last' = [rt |-> pc, i |-> i, j |-> j]

transpose_submit ==
    /\ pc = "transpose_submit"
    /\ IF M = 32 /\ N = 32
       THEN Goto("transpose32x32", 0, 0)
       ELSE IF M = 32 /\ N = 64
       THEN Goto("transpose32x64", 0, 0)
       ELSE Goto("transpose64x64", 0, 0)
    /\ Note
    /\ UNCHANGED <<M, N, fill, baseA, baseB, fn, score, A, B, c, cdef, cache,
                   misses, rewr, stray, carry, lost, undef, acc>>

trans ==
    /\ pc = "trans"
    /\ Body(loopTrans(i, 0))
    /\ Note
    /\ IF i + 1 < N
       THEN Goto(pc, i + 1, 0)
       ELSE Goto("done", i + 1, M)
    /\ UNCHANGED <<M, N, fill, baseA, baseB, fn, score>>

transpose32x32 ==
    /\ pc = "transpose32x32"
    /\ Body(loop32x32(i, j, i))
    /\ Note
    /\ IF j + 8 < M
       THEN Goto(pc, i, j + 8)
       ELSE IF i + 8 < N
       THEN Goto(pc, i + 8, 0)
       ELSE Goto("done", i + 8, j + 8)
    /\ UNCHANGED <<M, N, fill, baseA, baseB, fn, score>>

transpose32x64 ==
    /\ pc = "transpose32x64"
    /\ Body(loop32x64(i, j, First(i, j)))
    /\ Note
    /\ StripeAdvance
    /\ UNCHANGED <<M, N, fill, baseA, baseB, fn, score>>

transpose64x64 ==
    /\ pc = "transpose64x64"
    /\ Body(loop64x64(i, j, First(i, j)))
    /\ Note
    /\ StripeAdvance
    /\ UNCHANGED <<M, N, fill, baseA, baseB, fn, score>>

\* test has the text of transpose64x64
test ==
    /\ pc = "test"
    /\ Body(loop64x64(i, j, First(i, j)))
    /\ Note
    /\ StripeAdvance
    /\ UNCHANGED <<M, N, fill, baseA, baseB, fn, score>>

\* ------------------------------------------------------------------ calls
\* the functions registerFunctions hands to the driver, in its order
registerFunctions == <<"transpose_submit", "trans", "test">>

Far(s) == [a |-> 0, b |-> FarApart + LineBytes * s]
\* B directly behind A, A directly behind B
AthenB(m, n) == [a |-> 0, b |-> IntBytes * n * m]
BthenA(m, n) == [a |-> IntBytes * m * n, b |-> 0]

Placements(m, n) ==
    {Far(s) : s \in 0..MaxShift} \cup {AthenB(m, n), BthenA(m, n)}

NoCarry == [row |-> -1, col |-> -1, caps |-> 0, uses |-> 0]

\* the memory in which the driver calls a registered function: A as
\* filled, nothing of B written, no scalar assigned, the cache cold
Fresh ==
    [A |-> <<>>,
     B |-> [x \in 0..(M * N - 1) |-> NoWord],
     c |-> [r \in Scalars |-> 0],
     cdef |-> {},
     cache |-> [s \in 0..(NumSets - 1) |-> -1],
     misses |-> 0,
     rewr |-> {},
     stray |-> FALSE,
     carry |-> [r \in Carried |-> NoCarry],
     lost |-> FALSE,
     undef |-> FALSE]

Init ==
    /\ \E sh \in Shapes :
          /\ M = sh[1]
          /\ N = sh[2]
          /\ \E p \in Placements(sh[1], sh[2]) : baseA = p.a /\ baseB = p.b
    /\ fill \in Fills
    /\ fn = 1
    /\ pc = registerFunctions[1]
    /\ score = [f \in 1..Len(registerFunctions) |-> -1]
    /\ last = [rt |-> "none", i |-> 0, j |-> 0]
    /\ i = 0 /\ j = 0
    /\ A = Fresh.A
    /\ B = Fresh.B
    /\ c = Fresh.c
    /\ cdef = Fresh.cdef
    /\ cache = Fresh.cache
    /\ misses = Fresh.misses
    /\ rewr = Fresh.rewr
    /\ stray = Fresh.stray
    /\ carry = Fresh.carry
    /\ lost = Fresh.lost
    /\ undef = Fresh.undef
    /\ acc = <<>>

\* the driver records the misses of the function that returned and calls
\* the next registered function on fresh memory
Evaluate ==
    /\ pc = "done"
    /\ UNCHANGED <<M, N, fill, baseA, baseB>>
    /\ score' = [score EXCEPT ![fn] = misses]
    /\ Note
    /\ IF fn < Len(registerFunctions)
       THEN /\ fn' = fn + 1
            /\ Goto(registerFunctions[fn + 1], 0, 0)
            /\ A' = Fresh.A
            /\ B' = Fresh.B
            /\ c' = Fresh.c
            /\ cdef' = Fresh.cdef
            /\ cache' = Fresh.cache
            /\ misses' = Fresh.misses
            /\ rewr' = Fresh.rewr
            /\ stray' = Fresh.stray
            /\ carry' = Fresh.carry
            /\ lost' = Fresh.lost
            /\ undef' = Fresh.undef
            /\ acc' = <<>>
       ELSE /\ pc' = "exit"
            /\ UNCHANGED <<fn, i, j, A, B, c, cdef, cache, misses, rewr,
                           stray, carry, lost, undef, acc>>

Next ==
    \/ transpose_submit
    \/ trans
    \/ transpose32x32
    \/ transpose32x64
    \/ transpose64x64
    \/ test
    \/ Evaluate

Spec == Init /\ [][Next]_vars

\* ----------------------------------------------------------- vocabulary
Submit == registerFunctions[fn] = "transpose_submit"
Baseline == registerFunctions[fn] = "trans"
Returned == pc = "done"
Shape(m, n) == M = m /\ N = n
Aligned == baseA % CacheBytes = 0 /\ baseB % CacheBytes = 0
ScoreOf(name) ==
    score[CHOOSE x \in 1..Len(registerFunctions) : registerFunctions[x] = name]

\* A[r][col] as captured on entry, A[r][col] now, B[r][col] = v now
Entry(r, col) == Content(fill, M, r, col)
Aat(r, col) ==
    IF r * M + col \in DOMAIN A THEN A[r * M + col] ELSE Entry(r, col)
BHas(r, col, v) == B[r * N + col] = v

\* every access of the last loop stays inside the N x M rectangle of A
\* (loads) and the M x N rectangle of B (stores)
AccInRect ==
    \A n \in 1..Len(acc) :
        /\ acc[n].row >= 0
        /\ acc[n].col >= 0
        /\ IF acc[n].op = "ld"
           THEN acc[n].row < N /\ acc[n].col < M
           ELSE acc[n].row < M /\ acc[n].col < N

Transposed ==
    \A r \in 0..(N - 1), col \in 0..(M - 1) : BHas(col, r, Entry(r, col))

AUnchanged ==
    \A r \in 0..(N - 1), col \in 0..(M - 1) : Aat(r, col) = Entry(r, col)

\* every word of B has been written
AllWritten == \A x \in 0..(M * N - 1) : B[x] # NoWord

\* ------------------------------------------------------------------ claims
\* C1: for each recognized shape and every content of A, when
\* transpose_submit returns B[j][i] is the entry value of A[i][j] for all
\* i in [0,N), j in [0,M), and A is unchanged.
C1_Transpose ==
    (Submit /\ Returned /\ <<M, N>> \in Recognized)
        => (Transposed /\ AUnchanged)

C1_Witness ==
    /\ Submit /\ Returned /\ Shape(32, 64) /\ fill = "diff"
    /\ BHas(31, 63, 32)
    /\ BHas(0, 63, 63)

\* C2: on the unrecognized shape N=2, M=2 with A = [[1,2],[3,4]] the
\* fallback reads only A[0..1][0..1], writes only B[0..1][0..1] and
\* finishes with B = [[1,3],[2,4]].
C2_Fallback2x2 ==
    (Submit /\ Shape(2, 2) /\ fill = "rowmajor")
        => /\ AccInRect
           /\ Returned => B = [x \in 0..3 |-> <<1, 3, 2, 4>>[x + 1]]

\* C3: the three tuned routines on their own shapes, and the baseline trans
\* on any shape, read A only at rows in [0,N) and columns in [0,M) and write
\* B only at rows in [0,M) and columns in [0,N).
C3_InRect ==
    (Baseline \/ (Submit /\ <<M, N>> \in Recognized)) => AccInRect

C3_Witness ==
    /\ Submit /\ Shape(64, 64) /\ last.rt = "transpose64x64"
    /\ last.j = 56
    /\ \E n \in 1..Len(acc) : acc[n] = Ld(7, last.i + 1, 63)

\* C4: in a call of transpose_submit on a recognized shape no step writes a
\* cell of A, and every cell of B is written exactly once before return.
C4_WriteOnce ==
    (Submit /\ <<M, N>> \in Recognized)
        => /\ DOMAIN A = {}
           /\ rewr = {}
           /\ Returned => AllWritten

C4_Witness ==
    /\ Submit /\ Returned /\ Shape(64, 64)
    /\ AllWritten
    /\ rewr = {}

\* C5: on 64x64, cold cache, both bases congruent to 0 modulo 1024, the
\* misses of transpose_submit at return are below 1300.
C5_Budget64 ==
    (Submit /\ Returned /\ Shape(64, 64) /\ Aligned) => misses < 1300

\* C6 as stated: on M=32, N=64, cold cache, the misses of transpose_submit
\* at return are below 300.
C6_Budget32x64 ==
    (Submit /\ Returned /\ Shape(32, 64)) => misses < 300

\* C6 amended: on M=32, N=64, cold cache, bases 32-byte aligned, the misses
\* of transpose_submit at return are exactly 600.
C6_Misses32x64 ==
    (Submit /\ Returned /\ Shape(32, 64)) => misses = 600

C6_Witness ==
    /\ Submit /\ Returned /\ Shape(32, 64)
    /\ baseB = Far(1).b
    /\ misses = 600

\* C7: on 32x32, cold cache, both bases congruent to 0 modulo 1024, the
\* misses of transpose_submit at return are below 300.
C7_Budget32 ==
    (Submit /\ Returned /\ Shape(32, 32) /\ Aligned) => misses < 300

C7_Witness ==
    /\ Submit /\ Returned /\ Shape(32, 32) /\ Aligned
    /\ SetOf(AddrA(1, 8)) = SetOf(AddrB(1, 8))
    /\ misses = 284

\* C8: on 64x64, same cache and placement, four times the misses of
\* transpose_submit are fewer than the misses of the baseline trans.
C8_FourTimes ==
    (Shape(64, 64) /\ Aligned /\ ScoreOf("trans") >= 0)
        => 4 * ScoreOf("transpose_submit") < ScoreOf("trans")

\* C9: in transpose64x64 on 64x64 the stores of c4..c7 of band i and odd
\* stripe j follow exactly one capture, the one made at k = i+1 of the even
\* stripe j-4 of the same band, so the stored values are A[i+1][j..j+3];
\* c4..c7 are never stored unassigned and each capture is stored by
\* exactly one odd stripe.
C9_Carry ==
    (Submit /\ Shape(64, 64))
        => /\ ~undef
           /\ ~lost
           /\ (last.rt = "transpose64x64" /\ ~Even(last.j))
                => \A d \in 0..3 :
                     /\ carry[4 + d] = [row |-> last.i + 1,
                                        col |-> (last.j - 4) + 4 + d,
                                        caps |-> 1, uses |-> 1]
                     /\ c[4 + d] = Entry(last.i + 1, last.j + d)
                     /\ BHas(last.j + d, last.i + 1,
                             Entry(last.i + 1, last.j + d))
           /\ (last.rt = "transpose64x64" /\ Even(last.j))
                => \A d \in 0..3 :
                     carry[4 + d] = [row |-> last.i + 1,
                                     col |-> last.j + 4 + d,
                                     caps |-> 1, uses |-> 0]
           /\ Returned => \A r \in Carried : carry[r].uses = 1

C9_Witness ==
    /\ Submit /\ Shape(64, 64) /\ last.rt = "transpose64x64"
    /\ last.i = 56 /\ last.j = 60
    /\ carry[4] = [row |-> 57, col |-> 60, caps |-> 1, uses |-> 1]
    /\ BHas(60, 57, Entry(57, 60))

\* C10: for every shape with M and N positive multiples of 8 that
\* transpose_submit sends to its default arm, transpose64x64 terminates
\* (every stripe it runs moves (i, j) forward inside the N x M rectangle, or
\* is the last) with B[j][i] = A[i][j] for all i, j, writes each cell of B
\* exactly once and makes no access outside the rectangles of A and B.
Fallback8 ==
    /\ Submit /\ M % 8 = 0 /\ N % 8 = 0
    /\ ~(M = 32 /\ N = 32) /\ ~(M = 32 /\ N = 64)

C10_Mult8 ==
    /\ [](Fallback8
            => /\ pc \in {"transpose_submit", "transpose64x64", "done"}
               /\ pc = "transpose64x64" => (i \in 0..(N - 1) /\ j \in 0..(M - 1))
               /\ AccInRect
               /\ rewr = {}
               /\ Returned => (Transposed /\ AllWritten))
    /\ [][(Fallback8 /\ pc = "transpose64x64")
            => \/ pc' = "done"
               \/ pc' = pc /\ i' * M + j' > i * M + j]_vars

C10_Witness ==
    /\ Submit /\ Returned /\ Shape(16, 8) /\ last.rt = "transpose64x64"
    /\ Transposed

====
